---- MODULE Spec2Model ----
(***************************************************************************)
(* FORE token ledger and gamification engine of CASH_FOR_ENGLISH_BACK.     *)
(*                                                                         *)
(* The store (the database rows) is the state; every ORM statement is one  *)
(* atomic step (Django autocommit: no handler of the repository opens a    *)
(* transaction.atomic block and ATOMIC_REQUESTS is not set).               *)
(* Token amounts are whole tokens: every caller passes the value of a      *)
(* PositiveIntegerField, and Decimal(str(n)) of an integer n is n.         *)
(***************************************************************************)
EXTENDS Integers, Sequences, FiniteSets, TLC

VARIABLES
    wallet,         \* FOREWallet rows, by user
    txns,           \* Transaction rows, by user, in creation order
    credited,       \* history: sum of the amounts of the successful add_tokens calls
    debited,        \* history: sum of the amounts of the successful spend_tokens calls
    last,           \* the last call made and how it ended
    req,            \* the requests in flight: each one's position and local objects
    catalog,        \* Achievement rows, in the order of Achievement.Meta.ordering
    user_achievements,  \* UserAchievement rows, in creation order
    enrollment,     \* CourseEnrollment rows, by student (one course)
    lesson_progress,    \* LessonProgress.is_completed, by student and lesson
    quiz_attempts,  \* QuizAttempt rows of the quiz, by student: how many are completed,
                    \* whether the first one passed, whether any passed
    users,          \* User rows, by id: role, is_superuser, is_active, created_at
    leaderboard,    \* the Leaderboard row
    rankings,       \* UserRanking rows of the leaderboard, in creation order
    rewards,        \* Reward rows, by id: stock_quantity and total_redeemed
    redemptions,    \* RewardRedemption rows, in creation order
    served          \* history: how many requests the platform has served

ledgerVars == <<wallet, txns>>
historyVars == <<credited, debited>>
courseVars == <<enrollment, lesson_progress, quiz_attempts>>
achievementVars == <<catalog, user_achievements>>
userVars == <<users>>
leaderboardVars == <<leaderboard, rankings>>
redemptionVars == <<rewards, redemptions>>
vars == <<wallet, txns, credited, debited, last, req, catalog, user_achievements,
          enrollment, lesson_progress, quiz_attempts, users, leaderboard, rankings,
          rewards, redemptions, served>>

\* ------------------------------------------------------------------ bounds
MaxAmount == 2      \* amounts are drawn from -1 .. MaxAmount
MaxTxns == 4        \* no operation starts once the log holds MaxTxns rows
MaxFrozen == 1      \* frozen_amount of the ledger specification's wallet
MaxRaceCalls == 3   \* calls that get past their guard in the wallet race
MaxRequests == 4    \* requests served one after another by the platform
MaxGrantCalls == 3  \* check_achievements_for_user calls of the grant race

Users == {"u1", "u2"}
Procs == {"r1", "r2"}
Amounts == -1 .. MaxAmount

\* the two errors of the ledger, as the messages the code raises them with
InvalidAmount == "ValueError: La cantidad debe ser positiva"
InsufficientBalance == "ValueError: Balance insuficiente"

\* ------------------------------------------------------------------ FOREWallet
NoWallet == [exists |-> FALSE, balance |-> 0, total_earned |-> 0,
             total_spent |-> 0, frozen_amount |-> 0]

NewWallet(frozen) == [exists |-> TRUE, balance |-> 0, total_earned |-> 0,
                      total_spent |-> 0, frozen_amount |-> frozen]

available_balance(w) == w.balance - w.frozen_amount

\* mutant: the check forgets the frozen amount
can_spend_ignores_frozen(w, amount) == w.balance >= amount

can_spend(w, amount) == available_balance(w) >= amount

\* the in-memory part of add_tokens: self.balance += amount; self.total_earned += amount
wallet_after_add(w, amount) ==
    [w EXCEPT !.balance = @ + amount, !.total_earned = @ + amount]

\* mutant: the debit forgets total_spent
wallet_after_spend_no_total(w, amount) == [w EXCEPT !.balance = @ - amount]

\* the in-memory part of spend_tokens: self.balance -= amount; self.total_spent += amount
wallet_after_spend(w, amount) ==
    [w EXCEPT !.balance = @ - amount, !.total_spent = @ + amount]

\* ------------------------------------------------------------------ Transaction
None == "none"

NoRefs == [related_course |-> None, related_lesson |-> None,
           related_quiz |-> None, related_achievement |-> None]

Transaction(u, ttype, amount, balance_after, description) ==
    [user |-> u, transaction_type |-> ttype, amount |-> amount,
     balance_after |-> balance_after, description |-> description,
     refs |-> NoRefs]

\* ------------------------------------------------------------------ course content
\* One course with two published lessons (l1 mandatory, l2 optional) and one quiz.
Null == -1          \* a nullable integer column holding NULL

Lessons == {"l1", "l2"}

Lesson == [l1 |-> [title |-> "Saludos", course |-> "c1", fore_tokens_reward |-> 1,
                   is_published |-> TRUE, is_mandatory |-> TRUE],
           l2 |-> [title |-> "Saludos formales", course |-> "c1", fore_tokens_reward |-> 1,
                   is_published |-> TRUE, is_mandatory |-> FALSE]]

Course == [id |-> "c1", title |-> "Ingles A1", fore_tokens_reward |-> 2]

Quiz == [id |-> "q1", title |-> "Examen", lesson |-> "l1", fore_tokens_reward |-> 1,
         max_attempts |-> 3]

\* description__contains: the titles that occur inside a title
TitlesWithin(title) ==
    IF title = "Saludos formales" THEN {"Saludos", "Saludos formales"} ELSE {title}

Description(prefix, title) == [prefix |-> prefix, title |-> title]

NoDescription == Description("", "")

description__contains(description, title) == title \in TitlesWithin(description.title)

NewEnrollment == [status |-> "active"]

NoAttempts == [completed |-> 0, first_passed |-> FALSE, passed |-> FALSE]

\* ------------------------------------------------------------------ Achievement
Achievement(title, category, type, reward, courses, lessons, quizzes, streak, tokens, cap) ==
    [title |-> title, category |-> category, achievement_type |-> type,
     fore_tokens_reward |-> reward, required_courses |-> courses,
     required_lessons |-> lessons, required_quizzes |-> quizzes,
     required_streak_days |-> streak, required_fore_tokens |-> tokens,
     is_active |-> TRUE, max_recipients |-> cap]

\* Achievement rows as create_initial_achievements and the admin site create them,
\* thresholds and rewards scaled down to one course of two lessons and one quiz.
Coleccionista == Achievement("Coleccionista de FORE", "mastery", "gold", 1, 0, 0, 0, 0, 2, Null)
Dedicado == Achievement("Estudiante Dedicado", "progress", "bronze", 2, 0, 1, 0, 0, 0, Null)
Aplicado == Achievement("Estudiante Aplicado", "progress", "silver", 1, 0, 2, 1, 0, 0, Null)
Pionero == Achievement("Pionero", "special", "diamond", 1, 1, 0, 0, 0, 0, 1)
Constancia == Achievement("Constancia", "streak", "silver", 1, 0, 0, 0, 1, 0, Null)
Simbolico == Achievement("Simbolico", "learning", "bronze", 0, 0, 1, 0, 0, 0, Null)

\* The catalogs, each in the order of Meta.ordering (category, achievement_type, title)
Catalogs == { <<Coleccionista, Dedicado, Aplicado>>,
              <<Pionero, Constancia>>,
              <<Simbolico, Dedicado>> }

\* ------------------------------------------------------------------ User
Roles == {"student", "teacher", "admin"}

\* mutant: save leaves the role of a superuser as it is
save_keeps_role(row) == row

\* User.save: a superuser always has the role admin
save(row) == IF row.is_superuser THEN [row EXCEPT !.role = "admin"] ELSE row

\* is_admin_user
is_admin_user(row) == row.role = "admin" \/ row.is_superuser

\* no row for this id
NoUser == [role |-> None, is_superuser |-> FALSE, is_active |-> FALSE, created_at |-> 0]

\* UserManager.create_user / create_superuser at time now (auto_now_add)
create_user(role, is_superuser, now) ==
    save([role |-> role, is_superuser |-> is_superuser, is_active |-> TRUE,
          created_at |-> now])

\* two active students, u2 registered after u1
InitialUsers ==
    [u \in Users |-> create_user("student", FALSE, IF u = "u1" THEN 1 ELSE 2)]

\* ------------------------------------------------------------------ the store
\* The rows as one value S, so that a handler is an operator from store to store;
\* S.exc is the exception the handler is leaving with ("none": it returned).
Store == [wallet |-> wallet, txns |-> txns, catalog |-> catalog,
          user_achievements |-> user_achievements, enrollment |-> enrollment,
          lesson_progress |-> lesson_progress, quiz_attempts |-> quiz_attempts,
          users |-> users, leaderboard |-> leaderboard,
          rankings |-> rankings, rewards |-> rewards, redemptions |-> redemptions,
          exc |-> None,
          ret |-> None,             \* what the handler returned
          course_flag |-> FALSE]    \* _course_just_completed on the request's enrollment object

Raise(S, e) == [S EXCEPT !.exc = e]

\* mutant: the credit logs the balance it found, not the balance it leaves
add_tokens_logs_old_balance(S, u, amount, description, ttype) ==
    IF amount <= 0
    THEN Raise(S, InvalidAmount)
    ELSE [S EXCEPT !.wallet[u] = wallet_after_add(S.wallet[u], amount),
                   !.txns[u] = Append(@, Transaction(u, ttype, amount, S.wallet[u].balance,
                                                     description))]

\* FOREWallet.add_tokens on the wallet object of user u (memory and row agree:
\* the object was loaded by this request and nothing else writes the row).
add_tokens(S, u, amount, description, ttype) ==
    IF amount <= 0
    THEN Raise(S, InvalidAmount)
    ELSE LET w == wallet_after_add(S.wallet[u], amount)
         IN  [S EXCEPT !.wallet[u] = w,
                       !.txns[u] = Append(@, Transaction(u, ttype, amount, w.balance, description))]

\* FOREWallet.spend_tokens
spend_tokens(S, u, amount, description, ttype) ==
    IF ~can_spend(S.wallet[u], amount)
    THEN Raise(S, InsufficientBalance)
    ELSE LET w == wallet_after_spend(S.wallet[u], amount)
         IN  [S EXCEPT !.wallet[u] = w,
                       !.txns[u] = Append(@, Transaction(u, ttype, -amount, w.balance, description))]

\* ------------------------------------------------------------------ achievement engine
IntegrityError == "IntegrityError"

\* self.user_achievements.filter(user=user).exists()
has_achievement(S, a, u) ==
    \E i \in DOMAIN S.user_achievements :
        /\ S.user_achievements[i].user = u
        /\ S.user_achievements[i].achievement = a.title

\* Achievement.recipients_count
recipients_count(S, a) ==
    Cardinality({i \in DOMAIN S.user_achievements :
                    S.user_achievements[i].achievement = a.title})

\* Achievement.is_available ("if self.max_recipients and ...": NULL and 0 are both falsy)
is_available(S, a) ==
    IF ~a.is_active THEN FALSE
    ELSE IF a.max_recipients # Null /\ a.max_recipients # 0
            /\ recipients_count(S, a) >= a.max_recipients THEN FALSE
    ELSE TRUE

\* CourseEnrollment.objects.filter(student=user, status='completed').count()
completed_courses(S, u) == IF S.enrollment[u].status = "completed" THEN 1 ELSE 0

\* LessonProgress.objects.filter(enrollment__student=user, is_completed=True).count()
completed_lessons(S, u) == Cardinality({l \in Lessons : S.lesson_progress[u][l]})

\* QuizAttempt...filter(is_passed=True).values('quiz').distinct().count()
passed_quizzes(S, u) == IF S.quiz_attempts[u].passed THEN 1 ELSE 0

\* mutant: the quiz threshold is not looked at
check_achievement_skips_quizzes(S, a, u, w) ==
    IF has_achievement(S, a, u) THEN FALSE
    ELSE IF ~is_available(S, a) THEN FALSE
    ELSE IF a.required_courses > 0 /\ completed_courses(S, u) < a.required_courses THEN FALSE
    ELSE IF a.required_lessons > 0 /\ completed_lessons(S, u) < a.required_lessons THEN FALSE
    ELSE IF a.required_fore_tokens > 0 /\ ~w.exists THEN FALSE
    ELSE IF a.required_fore_tokens > 0 /\ w.total_earned < a.required_fore_tokens THEN FALSE
    ELSE TRUE

\* Achievement.check_achievement(user); w is the object user.fore_wallet gives this
\* request (NoWallet: the access raises FOREWallet.DoesNotExist)
check_achievement(S, a, u, w) ==
    IF has_achievement(S, a, u) THEN FALSE
    ELSE IF ~is_available(S, a) THEN FALSE
    ELSE IF a.required_courses > 0 /\ completed_courses(S, u) < a.required_courses THEN FALSE
    ELSE IF a.required_lessons > 0 /\ completed_lessons(S, u) < a.required_lessons THEN FALSE
    ELSE IF a.required_quizzes > 0 /\ passed_quizzes(S, u) < a.required_quizzes THEN FALSE
    ELSE IF a.required_fore_tokens > 0 /\ ~w.exists THEN FALSE
    ELSE IF a.required_fore_tokens > 0 /\ w.total_earned < a.required_fore_tokens THEN FALSE
    ELSE TRUE

\* UserAchievement.save: "if not self.fore_tokens_awarded" takes the reward
fore_tokens_awarded(given, a) ==
    IF given = Null \/ given = 0 THEN a.fore_tokens_reward ELSE given

UserAchievement(u, a) ==
    [user |-> u, achievement |-> a.title, fore_tokens_awarded |-> fore_tokens_awarded(Null, a)]

\* mutant: the table has no unique constraint
insert_user_achievement_unchecked(S, u, a) ==
    [S EXCEPT !.user_achievements = Append(@, UserAchievement(u, a))]

\* the INSERT of UserAchievement.objects.create, under unique_together (user, achievement)
insert_user_achievement(S, u, a) ==
    IF has_achievement(S, a, u)
    THEN Raise(S, IntegrityError)
    ELSE [S EXCEPT !.user_achievements = Append(@, UserAchievement(u, a))]

\* Transaction.objects.filter(user=u, description__contains=title).update(**refs)
update_refs(S, u, title, refs) ==
    [S EXCEPT !.txns[u] =
        [i \in DOMAIN S.txns[u] |->
            IF description__contains(S.txns[u][i].description, title)
            THEN [S.txns[u][i] EXCEPT !.refs =
                    [f \in DOMAIN NoRefs |-> IF f \in DOMAIN refs THEN refs[f] ELSE @[f]]]
            ELSE S.txns[u][i]]]

\* FOREWallet.objects.create(user=u) in the handlers' except FOREWallet.DoesNotExist
create_wallet(S, u) == [S EXCEPT !.wallet[u] = NewWallet(0)]

\* signal reward_achievement_earned (post_save of a created UserAchievement)
reward_achievement_earned(S, u, a) ==
    IF ~S.wallet[u].exists
    THEN create_wallet(S, u)
    ELSE LET S1 == add_tokens(S, u, fore_tokens_awarded(Null, a),
                              Description("Logro obtenido", a.title), "achievement_earned")
         IN  IF S1.exc # None THEN S1
             ELSE update_refs(S1, u, a.title, [related_achievement |-> a.title])

\* the rows of Achievement.objects.filter(is_active=True).exclude(user_achievements__user=user)
available_achievements(S, u) ==
    SelectSeq(S.catalog, LAMBDA a : a.is_active /\ ~has_achievement(S, a, u))

\* the loop of check_achievements_for_user over the rows fetched when it starts
RECURSIVE grant_loop(_, _, _, _)
grant_loop(S, u, rows, i) ==
    IF S.exc # None \/ i > Len(rows) THEN S
    ELSE IF check_achievement(S, rows[i], u, S.wallet[u])
    THEN LET S1 == insert_user_achievement(S, u, rows[i])
         IN  IF S1.exc # None THEN S1
             ELSE grant_loop(reward_achievement_earned(S1, u, rows[i]), u, rows, i + 1)
    ELSE grant_loop(S, u, rows, i + 1)

check_achievements_for_user(S, u) == grant_loop(S, u, available_achievements(S, u), 1)

\* ------------------------------------------------------------------ activity handlers
\* signal reward_lesson_completion, for a save that has just set is_completed
reward_lesson_completion(S, u, l) ==
    IF ~S.wallet[u].exists
    THEN create_wallet(S, u)
    ELSE LET S1 == IF Lesson[l].fore_tokens_reward > 0
                   THEN update_refs(
                            add_tokens(S, u, Lesson[l].fore_tokens_reward,
                                       Description("Leccion completada", Lesson[l].title),
                                       "lesson_completed"),
                            u, Lesson[l].title,
                            [related_lesson |-> l, related_course |-> Lesson[l].course])
                   ELSE S
         IN  check_achievements_for_user(S1, u)

\* signal reward_quiz_completion, for a save of a passed and completed attempt
reward_quiz_completion(S, u) ==
    IF ~S.wallet[u].exists
    THEN create_wallet(S, u)
    ELSE LET S1 == IF Quiz.fore_tokens_reward > 0
                   THEN update_refs(
                            add_tokens(S, u, Quiz.fore_tokens_reward,
                                       Description("Quiz aprobado", Quiz.title), "quiz_passed"),
                            u, Quiz.title,
                            [related_quiz |-> Quiz.id, related_lesson |-> Quiz.lesson,
                             related_course |-> Lesson[Quiz.lesson].course])
                   ELSE S
         IN  check_achievements_for_user(S1, u)

\* signal reward_course_completion, run by every save of the enrollment
reward_course_completion(S, u) ==
    IF S.enrollment[u].status = "completed" /\ ~S.course_flag
    THEN LET S0 == [S EXCEPT !.course_flag = TRUE]
         IN  IF ~S0.wallet[u].exists
             THEN create_wallet(S0, u)
             ELSE LET S1 == IF Course.fore_tokens_reward > 0
                            THEN update_refs(
                                     add_tokens(S0, u, Course.fore_tokens_reward,
                                                Description("Curso completado", Course.title),
                                                "course_completed"),
                                     u, Course.title, [related_course |-> Course.id])
                            ELSE S0
                  IN  check_achievements_for_user(S1, u)
    ELSE S

\* CourseEnrollment.complete_course
complete_course(S, u) ==
    reward_course_completion([S EXCEPT !.enrollment[u].status = "completed"], u)

\* CourseEnrollment.calculate_progress
calculate_progress(S, u) ==
    LET mandatory == {l \in Lessons : Lesson[l].is_published /\ Lesson[l].is_mandatory}
        total_lessons == Cardinality(mandatory)
        completed == Cardinality({l \in mandatory : S.lesson_progress[u][l]})
    IN  IF total_lessons = 0 THEN S
        ELSE LET S1 == reward_course_completion(S, u)   \* save(update_fields=['progress_percentage'])
             IN  IF S1.exc # None THEN S1
                 ELSE IF completed * 100 >= 100 * total_lessons
                         /\ S1.enrollment[u].status = "active"
                 THEN complete_course(S1, u)
                 ELSE S1

\* LessonProgress.mark_completed
mark_completed(S, u, l) ==
    IF S.lesson_progress[u][l] THEN S
    ELSE LET S1 == reward_lesson_completion([S EXCEPT !.lesson_progress[u][l] = TRUE], u, l)
         IN  IF S1.exc # None THEN S1
             ELSE LET S2 == reward_course_completion(S1, u)  \* enrollment.save(update_fields=[...])
                  IN  IF S2.exc # None THEN S2 ELSE calculate_progress(S2, u)

\* QuizAttempt.complete_attempt on the attempt the submit view has just created
complete_attempt(S, u, passed) ==
    LET S0 == [S EXCEPT !.quiz_attempts[u] =
                  [completed |-> @.completed + 1,
                   first_passed |-> IF @.completed = 0 THEN passed ELSE @.first_passed,
                   passed |-> @.passed \/ passed]]
    IN  IF ~passed THEN S0
        ELSE LET S1 == reward_quiz_completion(S0, u)
             IN  IF S1.exc # None THEN S1 ELSE reward_course_completion(S1, u)

\* The submit view's gate: quiz.attempts.filter(enrollment=...).last().can_retake().
\* Under Meta.ordering = ['-started_at'], last() is the student's FIRST attempt.
can_retake(S, u) ==
    \/ S.quiz_attempts[u].completed = 0
    \/ /\ ~S.quiz_attempts[u].first_passed
       /\ S.quiz_attempts[u].completed < Quiz.max_attempts

\* ------------------------------------------------------------------ leaderboard engine
\* The all-time lessons leaderboard of create_initial_leaderboards, rewards scaled down
Leaderboard == [title |-> "Ranking de Lecciones", category |-> "lessons_completed",
                period |-> "all_time", max_positions |-> 2,
                first_place_reward |-> 2, second_place_reward |-> 1,
                third_place_reward |-> 1]

\* every order of the elements of a finite set
Orders(set) ==
    {q \in [1 .. Cardinality(set) -> set] : \A i, j \in DOMAIN q : q[i] = q[j] => i = j}

\* User.objects.filter(role='student', is_active=True) under Meta.ordering
\* ['-created_at']: the orders in which the database may return the rows (rows of
\* equal created_at come in any order)
student_queries(S) ==
    {q \in Orders({u \in Users : S.users[u].role = "student" /\ S.users[u].is_active}) :
        \A i, j \in DOMAIN q : i < j => S.users[q[i]].created_at >= S.users[q[j]].created_at}

\* the score update_rankings computes for one user (period all_time)
score(S, u) ==
    IF S.leaderboard.category = "fore_tokens"
    THEN IF S.wallet[u].exists THEN S.wallet[u].total_earned ELSE 0
    ELSE IF S.leaderboard.category = "courses_completed" THEN completed_courses(S, u)
    ELSE IF S.leaderboard.category = "lessons_completed" THEN completed_lessons(S, u)
    ELSE IF S.leaderboard.category = "quizzes_passed" THEN passed_quizzes(S, u)
    ELSE IF S.leaderboard.category = "achievements_earned"
    THEN Cardinality({i \in DOMAIN S.user_achievements : S.user_achievements[i].user = u})
    ELSE 0

\* mutant: users who score nothing are ranked too
user_scores_keeps_zero(S, students) ==
    [i \in DOMAIN students |-> [user |-> students[i], score |-> score(S, students[i])]]

\* user_scores: the users with a score > 0, in the order the query returned them
user_scores(S, students) ==
    SelectSeq([i \in DOMAIN students |-> [user |-> students[i], score |-> score(S, students[i])]],
              LAMBDA e : e.score > 0)

\* list.sort(key=score, reverse=True): stable, equal scores keep their order
RECURSIVE sort_by_score(_)
sort_by_score(entries) ==
    IF entries = <<>> THEN <<>>
    ELSE LET sorted == sort_by_score(SubSeq(entries, 1, Len(entries) - 1))
             x == entries[Len(entries)]
             before == SelectSeq(sorted, LAMBDA e : e.score >= x.score)
             after == SelectSeq(sorted, LAMBDA e : e.score < x.score)
         IN  before \o <<x>> \o after

\* UserRanking.save: "if not self.reward_amount" takes the reward of the position
reward_amount(lb, given, position) ==
    IF given # 0 THEN given
    ELSE IF position = 1 THEN lb.first_place_reward
    ELSE IF position = 2 THEN lb.second_place_reward
    ELSE IF position = 3 THEN lb.third_place_reward
    ELSE 0

UserRanking(lb, u, position, sc) ==
    [user |-> u, position |-> position, score |-> sc,
     reward_amount |-> reward_amount(lb, 0, position), reward_claimed |-> FALSE]

Min(a, b) == IF a <= b THEN a ELSE b

\* user_scores[:self.max_positions] of the sorted list
top_scores(S, students) ==
    LET ranked == sort_by_score(user_scores(S, students))
    IN  SubSeq(ranked, 1, Min(Len(ranked), S.leaderboard.max_positions))

\* Leaderboard.update_rankings: delete every row, score, sort, create the rows;
\* students is the order in which the query returned the users
update_rankings(S, students) ==
    LET kept == top_scores(S, students)
    IN  [S EXCEPT !.rankings =
            [i \in DOMAIN kept |-> UserRanking(S.leaderboard, kept[i].user, i, kept[i].score)]]

\* mutant: the claim is paid but never recorded on the row
claim_reward_never_recorded(S, i) ==
    LET r == S.rankings[i]
    IN  IF r.reward_claimed \/ r.reward_amount = 0 THEN [S EXCEPT !.ret = FALSE]
        ELSE IF ~S.wallet[r.user].exists THEN [S EXCEPT !.ret = FALSE]
        ELSE LET S1 == add_tokens(S, r.user, r.reward_amount,
                                  Description("Recompensa por posicion", S.leaderboard.title),
                                  "admin_bonus")
             IN  IF S1.exc # None THEN [S EXCEPT !.ret = FALSE]
                 ELSE [S1 EXCEPT !.ret = TRUE]

\* UserRanking.claim_reward on row i
claim_reward(S, i) ==
    LET r == S.rankings[i]
    IN  IF r.reward_claimed \/ r.reward_amount = 0 THEN [S EXCEPT !.ret = FALSE]
        ELSE IF ~S.wallet[r.user].exists THEN [S EXCEPT !.ret = FALSE]   \* except Exception
        ELSE LET S1 == add_tokens(S, r.user, r.reward_amount,
                                  Description("Recompensa por posicion", S.leaderboard.title),
                                  "admin_bonus")
             IN  IF S1.exc # None THEN [S EXCEPT !.ret = FALSE]          \* except Exception
                 ELSE [S1 EXCEPT !.rankings[i].reward_claimed = TRUE, !.ret = TRUE]

\* ------------------------------------------------------------------ redemption engine
Rewards == {"r1", "r2"}

Addresses == {"", "Calle 1"}    \* delivery_address of the request body

\* Two rewards of create_initial_rewards, costs and stock scaled down
Reward == [r1 |-> [title |-> "Certificado Digital Personalizado", fore_cost |-> 1,
                   is_active |-> TRUE, requires_shipping |-> FALSE, max_per_user |-> Null],
           r2 |-> [title |-> "Taza", fore_cost |-> 2,
                   is_active |-> TRUE, requires_shipping |-> TRUE, max_per_user |-> 1]]

InitialRewards == [r1 |-> [stock_quantity |-> Null, total_redeemed |-> 0],
                   r2 |-> [stock_quantity |-> 1, total_redeemed |-> 0]]

\* Reward.is_available (no availability window set)
reward_is_available(S, r) ==
    IF ~Reward[r].is_active THEN FALSE
    ELSE IF S.rewards[r].stock_quantity # Null /\ S.rewards[r].stock_quantity <= 0 THEN FALSE
    ELSE TRUE

\* self.redemptions.filter(user=user).count()
user_redemptions(S, r, u) ==
    Cardinality({i \in DOMAIN S.redemptions :
                    S.redemptions[i].reward = r /\ S.redemptions[i].user = u})

\* Reward.can_redeem: the message, "Puede canjear" when the user can
can_redeem(S, r, u) ==
    IF ~reward_is_available(S, r) THEN "Recompensa no disponible"
    ELSE IF ~S.wallet[u].exists THEN "No tienes una billetera FORE"
    ELSE IF ~can_spend(S.wallet[u], Reward[r].fore_cost) THEN "Balance FORE insuficiente"
    ELSE IF Reward[r].max_per_user # Null /\ Reward[r].max_per_user # 0
            /\ user_redemptions(S, r, u) >= Reward[r].max_per_user
    THEN "Limite de canjes por usuario alcanzado"
    ELSE "Puede canjear"

\* RedemptionRequestSerializer.is_valid: the error, "valid" when there is none
serializer_errors(S, reward_id, delivery_address) ==
    IF ~reward_is_available(S, reward_id) THEN "Esta recompensa no esta disponible"
    ELSE IF Reward[reward_id].requires_shipping /\ delivery_address = ""
    THEN "Esta recompensa requiere direccion de envio"
    ELSE "valid"

\* RewardRedemption.save: "if not self.fore_cost" takes the cost of the reward
RewardRedemption(u, r, delivery_address) ==
    [user |-> u, reward |-> r, fore_cost |-> Reward[r].fore_cost,
     delivery_address |-> delivery_address]

\* mutant: a redemption that leaves the stock as it found it
redeem_keeps_stock(S, u, pk, reward_id, delivery_address) ==
    IF serializer_errors(S, reward_id, delivery_address) # "valid"
    THEN [S EXCEPT !.ret = serializer_errors(S, reward_id, delivery_address)]
    ELSE IF can_redeem(S, pk, u) # "Puede canjear"
    THEN [S EXCEPT !.ret = can_redeem(S, pk, u)]
    ELSE LET S1 == spend_tokens(S, u, Reward[pk].fore_cost,
                                Description("Canje de recompensa", Reward[pk].title),
                                "reward_purchase")
         IN  IF S1.exc # None THEN [S EXCEPT !.ret = S1.exc]
             ELSE [S1 EXCEPT
                     !.redemptions = Append(@, RewardRedemption(u, pk, delivery_address)),
                     !.rewards[pk].total_redeemed = @ + 1,
                     !.ret = "created"]

\* RewardViewSet.redeem for reward pk, with reward_id and delivery_address in the body
redeem(S, u, pk, reward_id, delivery_address) ==
    IF serializer_errors(S, reward_id, delivery_address) # "valid"
    THEN [S EXCEPT !.ret = serializer_errors(S, reward_id, delivery_address)]
    ELSE IF can_redeem(S, pk, u) # "Puede canjear"
    THEN [S EXCEPT !.ret = can_redeem(S, pk, u)]
    ELSE LET S1 == spend_tokens(S, u, Reward[pk].fore_cost,
                                Description("Canje de recompensa", Reward[pk].title),
                                "reward_purchase")
         IN  IF S1.exc # None THEN [S EXCEPT !.ret = S1.exc]     \* except Exception
             ELSE [S1 EXCEPT
                     !.redemptions = Append(@, RewardRedemption(u, pk, delivery_address)),
                     !.rewards[pk].total_redeemed = @ + 1,
                     !.rewards[pk].stock_quantity = IF @ = Null THEN @ ELSE @ - 1,
                     !.ret = "created"]

\* Transaction.objects.count()
RECURSIVE CountRows(_, _)
CountRows(t, us) ==
    IF us = {} THEN 0
    ELSE LET u == CHOOSE x \in us : TRUE
         IN  Len(t[u]) + CountRows(t, us \ {u})

TransactionCount == CountRows(txns, Users)

NoTransactions == [u \in Users |-> <<>>]

\* registration (or createsuperuser) at time now; create_fore_wallet gives a
\* student a wallet
register(S, u, role, is_superuser, now) ==
    LET row == create_user(role, is_superuser, now)
    IN  [S EXCEPT !.users[u] = row,
                  !.wallet[u] = IF row.role = "student" THEN NewWallet(0) ELSE @]

\* UserViewSet.get_queryset for the requester: the ids of the rows
get_queryset(S, requester) ==
    IF is_admin_user(S.users[requester])
    THEN {u \in Users : S.users[u].role # None}
    ELSE IF S.users[requester].role = "teacher"
    THEN {u \in Users : S.users[u].role = "student" \/ u = requester}
    ELSE {u \in Users : S.users[u].role # None /\ u = requester}

\* UserViewSet.activate: toggle is_active and save
activate(S, u) == [S EXCEPT !.users[u] = save([@ EXCEPT !.is_active = ~@])]

Commit(S) ==
    /\ wallet' = S.wallet
    /\ txns' = S.txns
    /\ catalog' = S.catalog
    /\ user_achievements' = S.user_achievements
    /\ enrollment' = S.enrollment
    /\ lesson_progress' = S.lesson_progress
    /\ quiz_attempts' = S.quiz_attempts
    /\ users' = S.users
    /\ leaderboard' = S.leaderboard
    /\ rankings' = S.rankings
    /\ rewards' = S.rewards
    /\ redemptions' = S.redemptions

\* both students enrolled in the course, nothing completed
NoCourseActivity ==
    /\ enrollment = [u \in Users |-> NewEnrollment]
    /\ lesson_progress = [u \in Users |-> [l \in Lessons |-> FALSE]]
    /\ quiz_attempts = [u \in Users |-> NoAttempts]

NoAchievements ==
    /\ catalog = <<>>
    /\ user_achievements = <<>>

\* the leaderboard of the initial data, never computed
NoRankings ==
    /\ leaderboard = Leaderboard
    /\ rankings = <<>>

NoRedemptions ==
    /\ rewards = InitialRewards
    /\ redemptions = <<>>

\* a request that is not running
Idle == [pc |-> "idle", op |-> None, user |-> None, amount |-> 0,
         w |-> NoWallet, base |-> NoWallet, result |-> None,
         rows |-> <<>>, i |-> 0,
         pk |-> None, reward_id |-> None, delivery_address |-> "",
         reward |-> [stock_quantity |-> Null, total_redeemed |-> 0]]

\* ------------------------------------------------------------------ ledger specification
\* One wallet object, add_tokens and spend_tokens called on it one after another.
LedgerUser == "u1"

LedgerInit ==
    /\ \E f \in 0 .. MaxFrozen :
          wallet = [u \in Users |-> IF u = LedgerUser THEN NewWallet(f) ELSE NoWallet]
    /\ txns = NoTransactions
    /\ credited = 0
    /\ debited = 0
    /\ last = [op |-> "init", user |-> None, amount |-> 0, result |-> None]
    /\ req = [p \in Procs |-> Idle]
    /\ NoCourseActivity
    /\ NoAchievements
    /\ users = InitialUsers
    /\ NoRankings
    /\ NoRedemptions
    /\ served = 0

LedgerAdd(amount) ==
    /\ TransactionCount < MaxTxns
    /\ LET S == add_tokens(Store, LedgerUser, amount, NoDescription, "EARNED")
       IN  /\ Commit(S)
           /\ credited' = IF S.exc = None THEN credited + amount ELSE credited
           /\ last' = [op |-> "add_tokens", user |-> LedgerUser, amount |-> amount, result |-> S.exc]
    /\ UNCHANGED <<debited, req, served>>

LedgerSpend(amount) ==
    /\ TransactionCount < MaxTxns
    /\ LET S == spend_tokens(Store, LedgerUser, amount, NoDescription, "SPENT")
       IN  /\ Commit(S)
           /\ debited' = IF S.exc = None THEN debited + amount ELSE debited
           /\ last' = [op |-> "spend_tokens", user |-> LedgerUser, amount |-> amount, result |-> S.exc]
    /\ UNCHANGED <<credited, req, served>>

LedgerNext ==
    \/ \E amount \in Amounts : LedgerAdd(amount)
    \/ \E amount \in Amounts : LedgerSpend(amount)

LedgerSpec == LedgerInit /\ [][LedgerNext]_vars

\* C1: over any sequence of add_tokens and spend_tokens calls on one wallet that
\* starts at balance 0, after every call balance = total_earned - total_spent, and
\* the balance is the sum of the successful credits minus the sum of the
\* successful debits.
C1_BalanceConservation ==
    LET w == wallet[LedgerUser]
    IN  /\ w.balance = w.total_earned - w.total_spent
        /\ w.balance = credited - debited

\* C1 witness: a successful credit and a successful debit have both happened.
C1_Witness ==
    /\ credited >= 2
    /\ debited >= 1
    /\ Len(txns[LedgerUser]) >= 3
    /\ wallet[LedgerUser].balance = credited - debited

\* C4: spend_tokens(amount) with amount > balance - frozen_amount fails with the
\* insufficient-balance error and changes neither the wallet row nor the log.
C4_OverdraftRejected ==
    [][ (last'.op = "spend_tokens" /\ last'.amount > available_balance(wallet[LedgerUser]))
          => /\ last'.result = InsufficientBalance
             /\ wallet' = wallet
             /\ txns' = txns ]_vars

\* C4 witness: a debit was refused although the balance alone would have covered
\* it (the frozen amount made the difference), after earlier successful calls.
C4_Witness ==
    /\ last.op = "spend_tokens"
    /\ last.result = InsufficientBalance
    /\ last.amount > 0
    /\ last.amount <= wallet[LedgerUser].balance
    /\ Len(txns[LedgerUser]) >= 1

\* C5: add_tokens(amount) and spend_tokens(amount) with amount <= 0 both fail with
\* the invalid-amount error and leave the wallet row and the log unchanged.
C5_NonPositiveRejected ==
    [][ (last'.op \in {"add_tokens", "spend_tokens"} /\ last'.amount <= 0)
          => /\ last'.result = InvalidAmount
             /\ wallet' = wallet
             /\ txns' = txns ]_vars

\* ------------------------------------------------------------------ engine specification
\* The requests of the platform, each run to its end before the next starts.
\* u1 is a student whose wallet create_fore_wallet made at registration; u2 is a
\* user registered with another role (no wallet) who is now a student. The
\* achievements are installed before anyone is active, or later.
FreshWallets == [u1 |-> NewWallet(0), u2 |-> NoWallet]

\* both students have the wallet of create_fore_wallet
AllWallets == [u1 |-> NewWallet(0), u2 |-> NewWallet(0)]

Init ==
    /\ wallet = FreshWallets
    /\ txns = NoTransactions
    /\ credited = 0
    /\ debited = 0
    /\ last = [op |-> "init", user |-> None, amount |-> 0, result |-> None]
    /\ req = [p \in Procs |-> Idle]
    /\ NoCourseActivity
    /\ catalog \in Catalogs \cup {<<>>}
    /\ user_achievements = <<>>
    /\ users = InitialUsers
    /\ NoRankings
    /\ NoRedemptions
    /\ served = 0

Result(S) == IF S.exc = None THEN "ok" ELSE S.exc

\* POST lessons/<slug>/complete/ (LessonViewSet.complete)
CompleteLesson(u, l) ==
    /\ served < MaxRequests
    /\ users[u].is_active
    /\ ~lesson_progress[u][l]
    /\ LET S == mark_completed(Store, u, l)
       IN  /\ Commit(S)
           /\ last' = [op |-> "complete_lesson", user |-> u, amount |-> 0, result |-> Result(S)]
    /\ served' = served + 1
    /\ UNCHANGED <<historyVars, req>>

\* POST quizzes/<pk>/submit/ (QuizViewSet.submit)
SubmitQuiz(u, passed) ==
    /\ served < MaxRequests
    /\ can_retake(Store, u)
    /\ LET S == complete_attempt(Store, u, passed)
       IN  /\ Commit(S)
           /\ last' = [op |-> "submit_quiz", user |-> u, amount |-> 0, result |-> Result(S)]
    /\ served' = served + 1
    /\ UNCHANGED <<historyVars, req>>

\* GET courses/<slug>/progress/ (CourseViewSet.progress)
Progress(u) ==
    /\ served < MaxRequests
    /\ LET S == calculate_progress(Store, u)
       IN  /\ Commit(S)
           /\ last' = [op |-> "progress", user |-> u, amount |-> 0, result |-> Result(S)]
    /\ served' = served + 1
    /\ UNCHANGED <<historyVars, req>>

\* POST achievements/check_all/ (AchievementViewSet.check_all)
CheckAll(u) ==
    /\ served < MaxRequests
    /\ LET S == check_achievements_for_user(Store, u)
       IN  /\ Commit(S)
           /\ last' = [op |-> "check_all", user |-> u, amount |-> 0, result |-> Result(S)]
    /\ served' = served + 1
    /\ UNCHANGED <<historyVars, req>>

\* POST create_initial_data (AdminRewardsView): the catalog is installed
CreateInitialData(c) ==
    /\ served < MaxRequests
    /\ catalog = <<>>
    /\ catalog' = c
    /\ served' = served + 1
    /\ last' = [op |-> "create_initial_data", user |-> None, amount |-> 0, result |-> "ok"]
    /\ UNCHANGED <<ledgerVars, historyVars, req, courseVars, user_achievements,
                   userVars, leaderboardVars, redemptionVars>>

\* POST leaderboards/<pk>/update_rankings/ and the admin action of the same name
UpdateRankings ==
    /\ served < MaxRequests
    /\ \E students \in student_queries(Store) :
       LET S == update_rankings(Store, students)
       IN  /\ Commit(S)
           /\ last' = [op |-> "update_rankings", user |-> None, amount |-> 0, result |-> Result(S)]
    /\ served' = served + 1
    /\ UNCHANGED <<historyVars, req>>

\* UserRanking.claim_reward on the row of user u
ClaimReward(u) ==
    /\ served < MaxRequests
    /\ \E i \in DOMAIN rankings :
          /\ rankings[i].user = u
          /\ LET S == claim_reward(Store, i)
             IN  /\ Commit(S)
                 /\ last' = [op |-> "claim_reward", user |-> u, amount |-> 0, result |-> S.ret]
    /\ served' = served + 1
    /\ UNCHANGED <<historyVars, req>>

\* POST rewards/<pk>/redeem/ (RewardViewSet.redeem)
Redeem(u, pk, reward_id, delivery_address) ==
    /\ served < MaxRequests
    /\ LET S == redeem(Store, u, pk, reward_id, delivery_address)
       IN  /\ Commit(S)
           /\ last' = [op |-> "redeem", user |-> u, amount |-> 0, result |-> S.ret]
    /\ served' = served + 1
    /\ UNCHANGED <<historyVars, req>>

Next ==
    \/ \E u \in Users, l \in Lessons : CompleteLesson(u, l)
    \/ \E u \in Users, passed \in BOOLEAN : SubmitQuiz(u, passed)
    \/ \E u \in Users : Progress(u)
    \/ \E u \in Users : CheckAll(u)
    \/ \E c \in Catalogs : CreateInitialData(c)
    \/ UpdateRankings
    \/ \E u \in Users : ClaimReward(u)
    \/ \E u \in Users, pk \in Rewards, reward_id \in Rewards, a \in Addresses :
          Redeem(u, pk, reward_id, a)

Spec == Init /\ [][Next]_vars

\* C2: for every user, the Transaction rows in creation order form a chain:
\* balance_after[0] = amount[0], balance_after[i] = balance_after[i-1] + amount[i],
\* and the last balance_after is the stored wallet balance, after any sequence of
\* activity handlers, achievement grants, leaderboard claims and redemptions.
C2_TransactionChain ==
    \A u \in Users :
        LET t == txns[u]
        IN  /\ \A i \in DOMAIN t :
                  t[i].balance_after =
                      (IF i = 1 THEN 0 ELSE t[i - 1].balance_after) + t[i].amount
            /\ t # <<>> => t[Len(t)].balance_after = wallet[u].balance

\* C2 witness: one user's log holds a lesson credit, an achievement credit, a
\* leaderboard claim and a redemption debit.
C2_Witness ==
    \E u \in Users :
        {"lesson_completed", "achievement_earned", "admin_bonus", "reward_purchase"}
            \subseteq {txns[u][i].transaction_type : i \in DOMAIN txns[u]}

\* C7: when check_achievements_for_user is called twice in succession for the same
\* user with nothing in between, the second call creates no UserAchievement row.
C7_SecondCallGrantsNothing ==
    [][ (last.op = "check_all" /\ last'.op = "check_all" /\ last'.user = last.user)
          => user_achievements' = user_achievements ]_vars

\* C8: check_achievement(user) is True only if the user has no grant of the
\* achievement, the achievement is available, and every non-zero threshold
\* (courses, lessons, distinct passed quizzes, total_earned) is met.
C8_CheckAchievementSound ==
    \A u \in Users : \A k \in DOMAIN catalog :
        LET a == catalog[k]
        IN  check_achievement(Store, a, u, wallet[u]) =>
              /\ ~\E i \in DOMAIN user_achievements :
                     user_achievements[i].user = u /\ user_achievements[i].achievement = a.title
              /\ is_available(Store, a)
              /\ a.required_courses # 0 =>
                     (IF enrollment[u].status = "completed" THEN 1 ELSE 0) >= a.required_courses
              /\ a.required_lessons # 0 =>
                     Cardinality({l \in Lessons : lesson_progress[u][l]}) >= a.required_lessons
              /\ a.required_quizzes # 0 =>
                     (IF quiz_attempts[u].passed THEN 1 ELSE 0) >= a.required_quizzes
              /\ a.required_fore_tokens # 0 =>
                     wallet[u].exists /\ wallet[u].total_earned >= a.required_fore_tokens

\* C8 witness: check_achievement is True for an achievement that declares two
\* thresholds, and for one that declares a token threshold.
C8_Witness ==
    /\ \E u \in Users : \E k \in DOMAIN catalog :
          /\ catalog[k].required_lessons > 0 /\ catalog[k].required_quizzes > 0
          /\ check_achievement(Store, catalog[k], u, wallet[u])
    /\ \E u \in Users : \E k \in DOMAIN catalog :
          /\ catalog[k].required_fore_tokens > 0
          /\ check_achievement(Store, catalog[k], u, wallet[u])

\* C9: every UserAchievement row has fore_tokens_awarded equal to the reward of
\* its achievement and is matched by exactly one achievement_earned credit of that
\* amount in the user's log, whatever the reward (>= 0) and whether or not the
\* user had a wallet when the row was created.
C9_GrantCredited ==
    \A i \in DOMAIN user_achievements :
        LET g == user_achievements[i]
            t == txns[g.user]
        IN  \A k \in DOMAIN catalog :
                catalog[k].title = g.achievement =>
                  /\ g.fore_tokens_awarded = catalog[k].fore_tokens_reward
                  /\ Cardinality({j \in DOMAIN t :
                        /\ t[j].transaction_type = "achievement_earned"
                        /\ t[j].description.title = g.achievement
                        /\ t[j].amount = catalog[k].fore_tokens_reward}) = 1

\* C14: claim_reward on a ranking with reward_amount > 0, not yet claimed, of a user
\* who has a wallet returns True, appends one transaction of reward_amount, credits
\* the balance and sets reward_claimed; a second call right after it returns False
\* and changes neither the wallets nor the transaction logs.
C14_ClaimCreditsOnce ==
    [][\A u \in Users, i \in DOMAIN rankings :
          (last'.op = "claim_reward" /\ last'.user = u /\ rankings[i].user = u) =>
             /\ (~rankings[i].reward_claimed /\ rankings[i].reward_amount > 0
                     /\ wallet[u].exists) =>
                   /\ last'.result = TRUE
                   /\ Len(txns'[u]) = Len(txns[u]) + 1
                   /\ txns'[u][Len(txns'[u])].amount = rankings[i].reward_amount
                   /\ SubSeq(txns'[u], 1, Len(txns[u])) = txns[u]
                   /\ wallet'[u].balance = wallet[u].balance + rankings[i].reward_amount
                   /\ rankings'[i].reward_claimed
                   /\ \A v \in Users \ {u} : wallet'[v] = wallet[v] /\ txns'[v] = txns[v]
             /\ (last.op = "claim_reward" /\ last.user = u /\ last.result = TRUE) =>
                   /\ last'.result = FALSE
                   /\ wallet' = wallet
                   /\ txns' = txns
                   /\ rankings' = rankings]_vars

\* the second claim of a paid ranking has been refused
C14_Witness ==
    /\ last.op = "claim_reward"
    /\ last.result = FALSE
    /\ \E i \in DOMAIN rankings :
          /\ rankings[i].user = last.user
          /\ rankings[i].reward_claimed
          /\ rankings[i].reward_amount > 0
          /\ Cardinality({k \in DOMAIN txns[last.user] :
                            txns[last.user][k].transaction_type = "admin_bonus"}) = 1

\* C15: a redeem request that is rejected leaves the wallets, the transaction logs,
\* the rewards' stock_quantity and total_redeemed and the RewardRedemption rows as
\* they were; a successful one lowers the user's balance by the reward's fore_cost,
\* logs that debit, lowers a finite stock_quantity by 1, raises total_redeemed by 1
\* and adds exactly one RewardRedemption row, and touches nothing else.
C15_RedeemAllOrNothing ==
    [][\A u \in Users :
          (last'.op = "redeem" /\ last'.user = u) =>
             IF last'.result = "created"
             THEN \E pk \in Rewards :
                    /\ wallet'[u].balance = wallet[u].balance - Reward[pk].fore_cost
                    /\ Len(txns'[u]) = Len(txns[u]) + 1
                    /\ SubSeq(txns'[u], 1, Len(txns[u])) = txns[u]
                    /\ txns'[u][Len(txns'[u])].transaction_type = "reward_purchase"
                    /\ txns'[u][Len(txns'[u])].balance_after = wallet'[u].balance
                    /\ rewards'[pk].stock_quantity =
                          IF rewards[pk].stock_quantity = Null THEN Null
                          ELSE rewards[pk].stock_quantity - 1
                    /\ rewards'[pk].total_redeemed = rewards[pk].total_redeemed + 1
                    /\ \A other \in Rewards \ {pk} : rewards'[other] = rewards[other]
                    /\ Len(redemptions') = Len(redemptions) + 1
                    /\ SubSeq(redemptions', 1, Len(redemptions)) = redemptions
                    /\ redemptions'[Len(redemptions')].user = u
                    /\ redemptions'[Len(redemptions')].reward = pk
                    /\ \A v \in Users \ {u} : wallet'[v] = wallet[v] /\ txns'[v] = txns[v]
             ELSE /\ wallet' = wallet
                  /\ txns' = txns
                  /\ rewards' = rewards
                  /\ redemptions' = redemptions]_vars

\* the last unit of a finite stock was redeemed and the next request was rejected
C15_Witness ==
    /\ last.op = "redeem"
    /\ last.result \in {"Recompensa no disponible", "Esta recompensa no esta disponible"}
    /\ rewards["r2"].stock_quantity = 0
    /\ rewards["r2"].total_redeemed = 1
    /\ Len(redemptions) = 1
    /\ redemptions[1].reward = "r2"
    /\ wallet[redemptions[1].user].total_spent = Reward["r2"].fore_cost

\* the kind of error a redeem answer carries
error_kind(result) ==
    IF result \in {"Recompensa no disponible", "Esta recompensa no esta disponible"}
    THEN "NotAvailable"
    ELSE IF result \in {"Balance FORE insuficiente", "No tienes una billetera FORE",
                        InsufficientBalance}
    THEN "InsufficientBalance"
    ELSE IF result = "Limite de canjes por usuario alcanzado" THEN "PerUserLimitReached"
    ELSE IF result = "Esta recompensa requiere direccion de envio" THEN "MissingDeliveryInfo"
    ELSE IF result = "created" THEN "Created"
    ELSE "Other"

\* C18: a redeem request whose body names the reward of the URL is answered with
\* the first failing precondition in the order NotAvailable (inactive),
\* OutOfStock (finite stock exhausted), PerUserLimitReached, InsufficientBalance,
\* MissingDeliveryInfo (shipping reward, empty address), each its own kind.
C18_FirstFailureInOrder ==
    [][\A u \in Users, pk \in Rewards, a \in Addresses :
          Redeem(u, pk, pk, a) =>
              error_kind(last'.result) =
                 IF ~Reward[pk].is_active THEN "NotAvailable"
                 ELSE IF rewards[pk].stock_quantity # Null /\ rewards[pk].stock_quantity <= 0
                 THEN "OutOfStock"
                 ELSE IF Reward[pk].max_per_user # Null
                         /\ user_redemptions(Store, pk, u) >= Reward[pk].max_per_user
                 THEN "PerUserLimitReached"
                 ELSE IF ~wallet[u].exists
                         \/ available_balance(wallet[u]) < Reward[pk].fore_cost
                 THEN "InsufficientBalance"
                 ELSE IF Reward[pk].requires_shipping /\ a = ""
                 THEN "MissingDeliveryInfo"
                 ELSE "Created"]_vars

\* C19: no RewardRedemption row of a reward that requires shipping has an empty
\* delivery_address.
C19_ShippingAddressPresent ==
    \A k \in DOMAIN redemptions :
        Reward[redemptions[k].reward].requires_shipping
            => redemptions[k].delivery_address # ""

\* C22: a Transaction row, once appended, keeps every field: no request changes
\* a row that was in the log before it, the related_course, related_lesson,
\* related_quiz and related_achievement that the reward handlers attach included.
C22_TransactionsImmutable ==
    [][\A u \in Users : \A i \in DOMAIN txns[u] :
          /\ i \in DOMAIN txns'[u]
          /\ txns'[u][i] = txns[u][i]]_vars

\* C23: streak length is always zero, so no UserAchievement row exists for an
\* achievement that declares required_streak_days > 0, whatever its other
\* thresholds are.
C23_StreakNeverGranted ==
    \A i \in DOMAIN user_achievements : \A k \in DOMAIN catalog :
        catalog[k].title = user_achievements[i].achievement
            => catalog[k].required_streak_days = 0

\* C26: when the completion of a lesson with fore_tokens_reward > 0 ends
\* normally, a lesson_completed credit of that amount has been appended to the
\* student's log by it (a credit that could not be made is an error of the call).
C26_LessonCreditSurfaced ==
    [][\A u \in Users, l \in Lessons :
          ( /\ last'.op = "complete_lesson" /\ last'.user = u /\ last'.result = "ok"
            /\ ~lesson_progress[u][l] /\ lesson_progress'[u][l]
            /\ Lesson[l].fore_tokens_reward > 0 )
          => \E k \in DOMAIN txns'[u] :
                /\ k > Len(txns[u])
                /\ txns'[u][k].transaction_type = "lesson_completed"
                /\ txns'[u][k].amount = Lesson[l].fore_tokens_reward]_vars

\* C29: over any sequence of lesson completions, progress recalculations and
\* other saves of the enrollment, the log of a student holds at most one
\* course_completed credit for the course.
C29_CourseRewardOnce ==
    \A u \in Users :
        Cardinality({k \in DOMAIN txns[u] :
                        txns[u][k].transaction_type = "course_completed"}) <= 1

\* ------------------------------------------------------------------ grant race specification
\* check_achievements_for_user run by several requests at once, one ORM statement
\* (or one run of reads) per step. u1 is a student with a wallet who completed
\* the mandatory lesson, and with it the course, before the catalog was
\* installed; u2 either did the same or has no wallet and has done nothing.
FreshStore(wallets) ==
              [wallet |-> wallets, txns |-> [u1 |-> <<>>, u2 |-> <<>>],
               catalog |-> <<>>, user_achievements |-> <<>>,
               enrollment |-> [u1 |-> NewEnrollment, u2 |-> NewEnrollment],
               lesson_progress |-> [u1 |-> [l1 |-> FALSE, l2 |-> FALSE],
                                    u2 |-> [l1 |-> FALSE, l2 |-> FALSE]],
               quiz_attempts |-> [u1 |-> NoAttempts, u2 |-> NoAttempts],
               users |-> InitialUsers, leaderboard |-> Leaderboard,
               rankings |-> <<>>, rewards |-> InitialRewards, redemptions |-> <<>>,
               exc |-> None, ret |-> None, course_flag |-> FALSE]

\* the response is sent: the request's objects and its outcome are dropped
Served(S) == [S EXCEPT !.exc = None, !.ret = None, !.course_flag = FALSE]

GrantStores ==
    { mark_completed(Served(mark_completed(FreshStore(AllWallets), "u1", "l1")),
                     "u2", "l1"),
      mark_completed(FreshStore(FreshWallets), "u1", "l1") }

GrantInit ==
    /\ \E c \in Catalogs, S \in GrantStores :
          /\ catalog = c
          /\ wallet = S.wallet
          /\ txns = S.txns
          /\ enrollment = S.enrollment
          /\ lesson_progress = S.lesson_progress
          /\ quiz_attempts = S.quiz_attempts
    /\ user_achievements = <<>>
    /\ credited = 0
    /\ debited = 0
    /\ last = [op |-> "init", user |-> None, amount |-> 0, result |-> None]
    /\ req = [p \in Procs |-> Idle]
    /\ users = InitialUsers
    /\ NoRankings
    /\ NoRedemptions
    /\ served = 0

grantFrame == <<credited, debited, last, catalog, courseVars, userVars, leaderboardVars,
               redemptionVars>>

\* the call is entered; the for loop runs the query of the achievements not yet
\* granted to the user
GrantStart(p, u) ==
    /\ req[p].pc = "idle"
    /\ served < MaxGrantCalls
    /\ served' = served + 1
    /\ req' = [req EXCEPT ![p] = [Idle EXCEPT !.pc = "check", !.op = "check_all", !.user = u,
                                              !.rows = available_achievements(Store, u),
                                              !.i = 1]]
    /\ UNCHANGED <<wallet, txns, user_achievements, grantFrame>>

\* achievement.check_achievement(user): the reads of the check and, when it
\* passes, of the arguments of create, which load user.fore_wallet once
GrantCheck(p) ==
    /\ req[p].pc = "check"
    /\ LET r == req[p]
           a == r.rows[r.i]
           w == IF r.w.exists THEN r.w ELSE wallet[r.user]
       IN  IF r.i > Len(r.rows)
           THEN req' = [req EXCEPT ![p].pc = "done", ![p].result = "ok"]
           ELSE IF check_achievement(Store, a, r.user, IF a.required_fore_tokens > 0 THEN w ELSE r.w)
           THEN req' = [req EXCEPT ![p].pc = "insert", ![p].w = w]
           ELSE req' = [req EXCEPT ![p].i = @ + 1,
                                   ![p].w = IF a.required_fore_tokens > 0 THEN w ELSE @]
    /\ UNCHANGED <<wallet, txns, user_achievements, served, grantFrame>>

\* the INSERT of UserAchievement.objects.create
GrantInsert(p) ==
    /\ req[p].pc = "insert"
    /\ LET r == req[p]
           S == insert_user_achievement(Store, r.user, r.rows[r.i])
       IN  /\ user_achievements' = S.user_achievements
           /\ req' = IF S.exc # None
                     THEN [req EXCEPT ![p].pc = "done", ![p].result = S.exc]
                     ELSE [req EXCEPT ![p].pc = "credit"]
    /\ UNCHANGED <<wallet, txns, served, grantFrame>>

\* reward_achievement_earned: wallet = instance.user.fore_wallet, then
\* wallet.add_tokens up to self.save()
GrantCredit(p) ==
    /\ req[p].pc = "credit"
    /\ LET r == req[p]
           amount == fore_tokens_awarded(Null, r.rows[r.i])
           w == IF r.w.exists THEN r.w ELSE wallet[r.user]
       IN  IF ~w.exists
           THEN /\ req' = [req EXCEPT ![p].pc = "create_wallet"]
                /\ UNCHANGED wallet
           ELSE IF amount <= 0
           THEN /\ req' = [req EXCEPT ![p].pc = "done", ![p].result = InvalidAmount, ![p].w = w]
                /\ UNCHANGED wallet
           ELSE /\ wallet' = [wallet EXCEPT ![r.user] = wallet_after_add(w, amount)]
                /\ req' = [req EXCEPT ![p].pc = "log", ![p].amount = amount,
                                      ![p].w = wallet_after_add(w, amount)]
    /\ UNCHANGED <<txns, user_achievements, served, grantFrame>>

\* except FOREWallet.DoesNotExist: FOREWallet.objects.create(user=instance.user),
\* an INSERT under the unique user of the OneToOneField; next row
GrantCreateWallet(p) ==
    /\ req[p].pc = "create_wallet"
    /\ LET r == req[p]
       IN  IF wallet[r.user].exists
           THEN /\ req' = [req EXCEPT ![p].pc = "done", ![p].result = IntegrityError]
                /\ UNCHANGED wallet
           ELSE /\ wallet' = [wallet EXCEPT ![r.user] = NewWallet(0)]
                /\ req' = [req EXCEPT ![p].pc = "check", ![p].i = @ + 1,
                                      ![p].w = NewWallet(0)]
    /\ UNCHANGED <<txns, user_achievements, served, grantFrame>>

\* Transaction.objects.create(..., balance_after=self.balance)
GrantLog(p) ==
    /\ req[p].pc = "log"
    /\ LET r == req[p]
       IN  txns' = [txns EXCEPT ![r.user] =
                       Append(@, Transaction(r.user, "achievement_earned", r.amount, r.w.balance,
                                             Description("Logro obtenido", r.rows[r.i].title)))]
    /\ req' = [req EXCEPT ![p].pc = "refs"]
    /\ UNCHANGED <<wallet, user_achievements, served, grantFrame>>

\* Transaction.objects.filter(...).update(related_achievement=...), next row
GrantRefs(p) ==
    /\ req[p].pc = "refs"
    /\ LET r == req[p]
       IN  txns' = update_refs(Store, r.user, r.rows[r.i].title,
                               [related_achievement |-> r.rows[r.i].title]).txns
    /\ req' = [req EXCEPT ![p].pc = "check", ![p].i = @ + 1]
    /\ UNCHANGED <<wallet, user_achievements, served, grantFrame>>

\* the response is sent
GrantReturn(p) ==
    /\ req[p].pc = "done"
    /\ req' = [req EXCEPT ![p] = Idle]
    /\ UNCHANGED <<wallet, txns, user_achievements, served, grantFrame>>

GrantNext ==
    \/ \E p \in Procs, u \in Users : GrantStart(p, u)
    \/ \E p \in Procs : GrantCheck(p)
    \/ \E p \in Procs : GrantInsert(p)
    \/ \E p \in Procs : GrantCredit(p)
    \/ \E p \in Procs : GrantCreateWallet(p)
    \/ \E p \in Procs : GrantLog(p)
    \/ \E p \in Procs : GrantRefs(p)
    \/ \E p \in Procs : GrantReturn(p)

GrantSpec == GrantInit /\ [][GrantNext]_vars

\* C6: in every reachable state, concurrent evaluations for the same user
\* included, no two UserAchievement rows have the same user and achievement.
C6_OneGrantPerPair ==
    \A i, j \in DOMAIN user_achievements :
        ( /\ user_achievements[i].user = user_achievements[j].user
          /\ user_achievements[i].achievement = user_achievements[j].achievement )
        => i = j

\* C6 witness: two evaluations for the same user both decided to grant the same
\* achievement; one INSERT went through and the other was refused.
C6_Witness ==
    \E p \in Procs :
        /\ req[p].pc = "done"
        /\ req[p].result = IntegrityError
        /\ \E i \in DOMAIN user_achievements :
              /\ user_achievements[i].user = req[p].user
              /\ user_achievements[i].achievement = req[p].rows[req[p].i].title

\* C10: the number of UserAchievement rows of an achievement with
\* max_recipients = N never exceeds N, also when evaluations for several
\* qualifying users interleave.
C10_CapacityRespected ==
    \A k \in DOMAIN catalog :
        catalog[k].max_recipients # Null =>
            Cardinality({i \in DOMAIN user_achievements :
                            user_achievements[i].achievement = catalog[k].title})
                <= catalog[k].max_recipients

\* C25: a uniqueness violation met by a grant (the same user and achievement
\* granted by a concurrent evaluation) is absorbed: no evaluation ends with the
\* error, every one runs to the end of the rows it fetched.
C25_GrantFailureAbsorbed ==
    \A p \in Procs :
        req[p].pc = "done" =>
            /\ req[p].result # IntegrityError
            /\ (req[p].result = "ok" => req[p].i > Len(req[p].rows))

\* ------------------------------------------------------------------ wallet race specification
\* Two requests, each with its own FOREWallet object of the same row
\* (wallet = user.fore_wallet), each calling add_tokens or spend_tokens on it.
\* The steps of a call are its ORM statements: the SELECT that loads the object,
\* the UPDATE of self.save() (all columns, from the object's fields), the INSERT
\* of Transaction.objects.create.
RaceInit ==
    /\ wallet = [u \in Users |-> IF u = LedgerUser THEN NewWallet(0) ELSE NoWallet]
    /\ txns = NoTransactions
    /\ credited = 0
    /\ debited = 0
    /\ last = [op |-> "init", user |-> None, amount |-> 0, result |-> None]
    /\ req = [p \in Procs |-> Idle]
    /\ NoCourseActivity
    /\ NoAchievements
    /\ users = InitialUsers
    /\ NoRankings
    /\ NoRedemptions
    /\ served = 0

\* wallet = user.fore_wallet, then the call is entered
RaceLoad(p, op, amount) ==
    /\ req[p].pc = "idle"
    /\ TransactionCount + Cardinality({q \in Procs : req[q].pc \in {"loaded", "saved"}}) < MaxRaceCalls
    /\ req' = [req EXCEPT ![p] = [pc |-> "loaded", op |-> op, user |-> LedgerUser,
                                  amount |-> amount, w |-> wallet[LedgerUser],
                                  base |-> wallet[LedgerUser], result |-> None,
                                  rows |-> <<>>, i |-> 0]]
    /\ UNCHANGED <<wallet, txns, credited, debited, last, courseVars, achievementVars,
                   userVars, leaderboardVars, redemptionVars, served>>

\* the guard of the call, the update of the object's fields, self.save()
RaceSave(p) ==
    /\ req[p].pc = "loaded"
    /\ LET r == req[p]
           rejected == IF r.op = "add_tokens" THEN r.amount <= 0
                                             ELSE ~can_spend(r.w, r.amount)
           error == IF r.op = "add_tokens" THEN InvalidAmount ELSE InsufficientBalance
           w2 == IF r.op = "add_tokens" THEN wallet_after_add(r.w, r.amount)
                                        ELSE wallet_after_spend(r.w, r.amount)
       IN  IF rejected
           THEN /\ req' = [req EXCEPT ![p].pc = "done", ![p].result = error]
                /\ UNCHANGED <<wallet, credited, debited>>
           ELSE /\ wallet' = [wallet EXCEPT ![r.user] = w2]
                /\ req' = [req EXCEPT ![p].pc = "saved", ![p].w = w2]
                /\ credited' = IF r.op = "add_tokens" THEN credited + r.amount ELSE credited
                /\ debited' = IF r.op = "spend_tokens" THEN debited + r.amount ELSE debited
    /\ UNCHANGED <<txns, last, courseVars, achievementVars, userVars, leaderboardVars,
                   redemptionVars,
                   served>>

\* Transaction.objects.create(..., balance_after=self.balance), return self.balance
RaceInsert(p) ==
    /\ req[p].pc = "saved"
    /\ LET r == req[p]
       IN  txns' = [txns EXCEPT ![r.user] =
                       Append(@, Transaction(r.user, r.op,
                                             IF r.op = "add_tokens" THEN r.amount ELSE -r.amount,
                                             r.w.balance, NoDescription))]
    /\ req' = [req EXCEPT ![p].pc = "done", ![p].result = "ok"]
    /\ UNCHANGED <<wallet, credited, debited, last, courseVars, achievementVars,
                   userVars, leaderboardVars, redemptionVars, served>>

\* the response is sent; the request's objects are dropped
RaceReturn(p) ==
    /\ req[p].pc = "done"
    /\ req' = [req EXCEPT ![p] = Idle]
    /\ UNCHANGED <<wallet, txns, credited, debited, last, courseVars, achievementVars,
                   userVars, leaderboardVars, redemptionVars, served>>

RaceNext ==
    \/ \E p \in Procs, op \in {"add_tokens", "spend_tokens"}, amount \in 1 .. MaxAmount :
          RaceLoad(p, op, amount)
    \/ \E p \in Procs : RaceSave(p)
    \/ \E p \in Procs : RaceInsert(p)
    \/ \E p \in Procs : RaceReturn(p)

RaceSpec == RaceInit /\ [][RaceNext]_vars

\* C3: when two requests each hold their own loaded copy of the same wallet row
\* and one calls add_tokens(a) while the other calls spend_tokens(b), b within the
\* available balance, then once both calls have returned the stored balance is
\* initial + a - b and the stored totals reflect both calls (no update is lost).
C3_NoLostUpdate ==
    \A p, q \in Procs :
        ( /\ req[p].pc = "done" /\ req[p].op = "add_tokens" /\ req[p].result = "ok"
          /\ req[q].pc = "done" /\ req[q].op = "spend_tokens" /\ req[q].result = "ok"
          /\ req[p].base = req[q].base )
        => LET base == req[p].base
               w == wallet[LedgerUser]
           IN  /\ w.balance = base.balance + req[p].amount - req[q].amount
               /\ w.total_earned = base.total_earned + req[p].amount
               /\ w.total_spent = base.total_spent + req[q].amount


\* ------------------------------------------------------------------ leaderboard specification
\* The leaderboard recomputed between lesson completions and (de)activations, one
\* request at a time; the leaderboard keeps one or more positions and the two
\* students registered at the same instant or one after the other.
Leaderboards ==
    {[Leaderboard EXCEPT !.max_positions = n] : n \in 1 .. Leaderboard.max_positions}

UserTables ==
    {[u \in Users |-> create_user("student", FALSE, IF u = "u1" THEN 1 ELSE now)] :
        now \in 1 .. 2}

LeaderboardInit ==
    /\ wallet = AllWallets
    /\ txns = NoTransactions
    /\ credited = 0
    /\ debited = 0
    /\ last = [op |-> "init", user |-> None, amount |-> 0, result |-> None]
    /\ req = [p \in Procs |-> Idle]
    /\ NoCourseActivity
    /\ NoAchievements
    /\ users \in UserTables
    /\ leaderboard \in Leaderboards
    /\ rankings = <<>>
    /\ NoRedemptions
    /\ served = 0

\* POST users/<pk>/activate/ (UserViewSet.activate, admin only)
Activate(u) ==
    /\ served < MaxRequests
    /\ users[u].role # None
    /\ LET S == activate(Store, u)
       IN  /\ Commit(S)
           /\ last' = [op |-> "activate", user |-> u, amount |-> 0, result |-> Result(S)]
    /\ served' = served + 1
    /\ UNCHANGED <<historyVars, req>>

LeaderboardNext ==
    \/ \E u \in Users, l \in Lessons : CompleteLesson(u, l)
    \/ \E u \in Users : Activate(u)
    \/ UpdateRankings

LeaderboardSpec == LeaderboardInit /\ [][LeaderboardNext]_vars

\* the active students with a score > 0
Qualifying ==
    {u \in Users : users[u].role = "student" /\ users[u].is_active /\ score(Store, u) > 0}

\* C11: right after update_rankings the rows carry the positions 1..N exactly once
\* each, N = min(max_positions, number of active students with a score > 0); every
\* row is a qualifying user with its score, no score is 0, a better position never
\* has a smaller score, and without qualifying users there is no row.
C11_PositionsContiguous ==
    last.op = "update_rankings" =>
        LET N == Min(leaderboard.max_positions, Cardinality(Qualifying))
        IN  /\ Len(rankings) = N
            /\ \A n \in 1 .. N :
                  Cardinality({i \in DOMAIN rankings : rankings[i].position = n}) = 1
            /\ \A i \in DOMAIN rankings :
                  /\ rankings[i].position \in 1 .. N
                  /\ rankings[i].user \in Qualifying
                  /\ rankings[i].score = score(Store, rankings[i].user)
                  /\ rankings[i].score > 0
            /\ \A i, j \in DOMAIN rankings :
                  rankings[i].position < rankings[j].position
                      => rankings[i].score >= rankings[j].score
            /\ (Qualifying = {} => rankings = <<>>)

\* two students qualify, the leaderboard keeps one position: the better one is kept
C11_Witness ==
    /\ last.op = "update_rankings"
    /\ leaderboard.max_positions = 1
    /\ Cardinality(Qualifying) = 2
    /\ Len(rankings) = 1
    /\ \E u \in Users : score(Store, u) > rankings[1].score \/ score(Store, u) < rankings[1].score

\* C12: a second update_rankings right after the first, nothing changed in between,
\* leaves every user at the position the first run gave.
C12_RerunSamePositions ==
    [][(last.op = "update_rankings" /\ last'.op = "update_rankings")
          => \A u \in Users, n \in 1 .. Leaderboard.max_positions :
                (\E i \in DOMAIN rankings : rankings[i].user = u /\ rankings[i].position = n)
                    <=> (\E i \in DOMAIN rankings' :
                            rankings'[i].user = u /\ rankings'[i].position = n)]_vars


\* ------------------------------------------------------------------ ranking race
\* update_rankings statement by statement (no transaction is open: each statement
\* commits on its own), two runs that may interleave, and a reader of the rows.
\* The course activity is frozen and a run has completed over it before.
MaxRankingRuns == 2     \* update_rankings runs started

\* the rows as full_rankings serializes them
rows_of(table) == {table[i] : i \in DOMAIN table}

RankingStores ==
    LET S0 == FreshStore(AllWallets)
        S1 == mark_completed(S0, "u1", "l1")
        S2 == mark_completed(Served(S1), "u2", "l1")
        S3 == mark_completed(Served(S2), "u1", "l2")
    IN  {S0, S1, S2, S3}

RankingInit ==
    /\ \E S0 \in RankingStores, table \in UserTables, lb \in Leaderboards :
          LET S == [S0 EXCEPT !.users = table, !.leaderboard = lb]
          IN  /\ wallet = S.wallet
              /\ txns = S.txns
              /\ enrollment = S.enrollment
              /\ lesson_progress = S.lesson_progress
              /\ quiz_attempts = S.quiz_attempts
              /\ users = table
              /\ leaderboard = lb
              /\ \E students \in student_queries(S) :
                    rankings = update_rankings(S, students).rankings
    /\ credited = 0
    /\ debited = 0
    /\ last = [op |-> "init", user |-> None, amount |-> 0, result |-> None]
    /\ req = [p \in Procs |-> Idle]
    /\ NoAchievements
    /\ NoRedemptions
    /\ served = 0

rankingFrame == <<ledgerVars, historyVars, courseVars, achievementVars, userVars,
                  leaderboard, redemptionVars>>

\* self.user_rankings.all().delete()
RankDelete(p) ==
    /\ req[p].pc = "idle"
    /\ served < MaxRankingRuns
    /\ rankings' = <<>>
    /\ req' = [req EXCEPT ![p] = [Idle EXCEPT !.pc = "query", !.op = "update_rankings"]]
    /\ served' = served + 1
    /\ UNCHANGED <<last, rankingFrame>>

\* the users query, the score of each user, the sort and the slice
RankQuery(p) ==
    /\ req[p].pc = "query"
    /\ \E students \in student_queries(Store) :
          req' = [req EXCEPT ![p].rows = top_scores(Store, students), ![p].i = 1,
                             ![p].pc = "create"]
    /\ UNCHANGED <<rankings, last, served, rankingFrame>>

\* UserRanking.objects.create of the loop: unique_together (leaderboard, user) and
\* (leaderboard, position) refuse the row with an IntegrityError nothing catches
RankCreate(p) ==
    LET r == req[p]
    IN  /\ r.pc = "create"
        /\ r.i <= Len(r.rows)
        /\ IF \E k \in DOMAIN rankings :
                 rankings[k].user = r.rows[r.i].user \/ rankings[k].position = r.i
           THEN /\ req' = [req EXCEPT ![p].pc = "done", ![p].result = IntegrityError]
                /\ UNCHANGED rankings
           ELSE /\ rankings' = Append(rankings,
                        UserRanking(leaderboard, r.rows[r.i].user, r.i, r.rows[r.i].score))
                /\ req' = [req EXCEPT ![p].i = r.i + 1]
        /\ UNCHANGED <<last, served, rankingFrame>>

\* self.save(update_fields=['last_updated'])
RankSave(p) ==
    /\ req[p].pc = "create"
    /\ req[p].i > Len(req[p].rows)
    /\ req' = [req EXCEPT ![p].pc = "done", ![p].result = "ok"]
    /\ UNCHANGED <<rankings, last, served, rankingFrame>>

RankReturn(p) ==
    /\ req[p].pc = "done"
    /\ req' = [req EXCEPT ![p] = Idle]
    /\ UNCHANGED <<rankings, last, served, rankingFrame>>

\* GET leaderboards/<pk>/full_rankings/: one SELECT of the rows
FullRankings ==
    /\ last' = [op |-> "full_rankings", user |-> None, amount |-> 0,
                result |-> rows_of(rankings)]
    /\ UNCHANGED <<rankings, req, served, rankingFrame>>

RankingNext ==
    \/ \E p \in Procs : RankDelete(p)
    \/ \E p \in Procs : RankQuery(p)
    \/ \E p \in Procs : RankCreate(p)
    \/ \E p \in Procs : RankSave(p)
    \/ \E p \in Procs : RankReturn(p)
    \/ FullRankings

RankingSpec == RankingInit /\ [][RankingNext]_vars

\* the ranking sets a completed run over the present data can leave
CompleteRankings ==
    {rows_of(update_rankings(Store, students).rankings) : students \in student_queries(Store)}

\* C13: whatever a reader gets from full_rankings, before, during or between runs
\* of update_rankings, is a complete ranking set (the previous one or the new one),
\* never an empty or partly inserted one.
C13_ReaderSeesCompleteSet ==
    last.op = "full_rankings" => last.result \in CompleteRankings

\* ------------------------------------------------------------------ redemption race
\* redeem statement by statement (no transaction is open: each statement commits on
\* its own), two requests that may interleave. Both students have earned the
\* tokens of a completed lesson and course, or only u1 has.
MaxRedeemCalls == 2     \* redeem requests started

DatabaseError == "DatabaseError"

RedeemStores ==
    LET S0 == FreshStore(AllWallets)
        S1 == mark_completed(S0, "u1", "l1")
        S2 == mark_completed(Served(S1), "u2", "l1")
    IN  {S1, S2}

RedeemInit ==
    /\ \E S \in RedeemStores :
          /\ wallet = S.wallet
          /\ txns = S.txns
          /\ enrollment = S.enrollment
          /\ lesson_progress = S.lesson_progress
          /\ quiz_attempts = S.quiz_attempts
    /\ credited = 0
    /\ debited = 0
    /\ last = [op |-> "init", user |-> None, amount |-> 0, result |-> None]
    /\ req = [p \in Procs |-> Idle]
    /\ NoAchievements
    /\ users = InitialUsers
    /\ NoRankings
    /\ NoRedemptions
    /\ served = 0

redeemFrame == <<historyVars, courseVars, achievementVars, userVars, leaderboardVars>>

\* reward = self.get_object(): the request's Reward object
RedeemGet(p, u, id, body_id, address) ==
    /\ req[p].pc = "idle"
    /\ served < MaxRedeemCalls
    /\ users[u].role = "student"
    /\ users[u].is_active
    /\ req' = [req EXCEPT ![p] = [Idle EXCEPT !.pc = "validate", !.op = "redeem", !.user = u,
                                              !.pk = id, !.reward_id = body_id,
                                              !.delivery_address = address,
                                              !.amount = Reward[id].fore_cost,
                                              !.reward = rewards[id]]]
    /\ served' = served + 1
    /\ UNCHANGED <<ledgerVars, last, redemptionVars, redeemFrame>>

\* serializer.is_valid(): reads the reward of the body from the table
RedeemValidate(p) ==
    LET r == req[p]
        error == serializer_errors(Store, r.reward_id, r.delivery_address)
    IN  /\ r.pc = "validate"
        /\ req' = IF error # "valid"
                  THEN [req EXCEPT ![p].pc = "done", ![p].result = error]
                  ELSE [req EXCEPT ![p].pc = "check"]
        /\ UNCHANGED <<ledgerVars, last, redemptionVars, served, redeemFrame>>

\* reward.can_redeem(request.user): availability on the request's Reward object,
\* the wallet loaded (and cached on request.user), the user's redemptions counted
RedeemCheck(p) ==
    LET r == req[p]
        message == can_redeem([Store EXCEPT !.rewards[r.pk] = r.reward], r.pk, r.user)
    IN  /\ r.pc = "check"
        /\ req' = IF message # "Puede canjear"
                  THEN [req EXCEPT ![p].pc = "done", ![p].result = message]
                  ELSE [req EXCEPT ![p].pc = "spend", ![p].w = wallet[r.user]]
        /\ UNCHANGED <<ledgerVars, last, redemptionVars, served, redeemFrame>>

\* wallet.spend_tokens on the cached wallet: can_spend, then self.save()
RedeemSpend(p) ==
    LET r == req[p]
        w2 == wallet_after_spend(r.w, r.amount)
    IN  /\ r.pc = "spend"
        /\ IF ~can_spend(r.w, r.amount)
           THEN /\ req' = [req EXCEPT ![p].pc = "done", ![p].result = InsufficientBalance]
                /\ UNCHANGED wallet
           ELSE /\ wallet' = [wallet EXCEPT ![r.user] = w2]
                /\ req' = [req EXCEPT ![p].pc = "log", ![p].w = w2]
        /\ UNCHANGED <<txns, last, redemptionVars, served, redeemFrame>>

\* Transaction.objects.create of spend_tokens
RedeemLog(p) ==
    LET r == req[p]
    IN  /\ r.pc = "log"
        /\ txns' = [txns EXCEPT ![r.user] =
                       Append(@, Transaction(r.user, "reward_purchase", -r.amount, r.w.balance,
                                             Description("Canje de recompensa",
                                                         Reward[r.pk].title)))]
        /\ req' = [req EXCEPT ![p].pc = "create"]
        /\ UNCHANGED <<wallet, last, redemptionVars, served, redeemFrame>>

\* RewardRedemption.objects.create
RedeemCreate(p) ==
    LET r == req[p]
    IN  /\ r.pc = "create"
        /\ redemptions' = Append(redemptions, RewardRedemption(r.user, r.pk, r.delivery_address))
        /\ req' = [req EXCEPT ![p].pc = "save"]
        /\ UNCHANGED <<ledgerVars, last, rewards, served, redeemFrame>>

\* reward.total_redeemed += 1; reward.stock_quantity -= 1; reward.save(): the
\* request's object is written back, every column
RedeemSave(p) ==
    LET r == req[p]
        stock == IF r.reward.stock_quantity = Null THEN Null ELSE r.reward.stock_quantity - 1
    IN  /\ r.pc = "save"
        /\ rewards' = [rewards EXCEPT ![r.pk] = [stock_quantity |-> stock,
                                                total_redeemed |-> r.reward.total_redeemed + 1]]
        /\ req' = [req EXCEPT ![p].pc = "done", ![p].result = "created"]
        /\ UNCHANGED <<ledgerVars, last, redemptions, served, redeemFrame>>

\* the create or the save raises (the database refuses or loses the statement):
\* except Exception answers 400 with the message
RedeemFails(p) ==
    /\ req[p].pc \in {"create", "save"}
    /\ req' = [req EXCEPT ![p].pc = "done", ![p].result = DatabaseError]
    /\ UNCHANGED <<ledgerVars, last, redemptionVars, served, redeemFrame>>

RedeemReturn(p) ==
    /\ req[p].pc = "done"
    /\ last' = [op |-> "redeem", user |-> req[p].user, amount |-> 0, result |-> req[p].result]
    /\ req' = [req EXCEPT ![p] = Idle]
    /\ UNCHANGED <<ledgerVars, redemptionVars, served, redeemFrame>>

RedeemNext ==
    \/ \E p \in Procs, u \in Users, pk \in Rewards, reward_id \in Rewards, a \in Addresses :
          RedeemGet(p, u, pk, reward_id, a)
    \/ \E p \in Procs : RedeemValidate(p)
    \/ \E p \in Procs : RedeemCheck(p)
    \/ \E p \in Procs : RedeemSpend(p)
    \/ \E p \in Procs : RedeemLog(p)
    \/ \E p \in Procs : RedeemCreate(p)
    \/ \E p \in Procs : RedeemSave(p)
    \/ \E p \in Procs : RedeemReturn(p)

\* the requests, every statement of which succeeds
RedeemSpec == RedeemInit /\ [][RedeemNext]_vars

RedeemFaultNext ==
    \/ RedeemNext
    \/ \E p \in Procs : RedeemFails(p)

\* the requests, the create or the save of which may fail
RedeemFaultSpec == RedeemInit /\ [][RedeemFaultNext]_vars

\* the reward_purchase debits logged for user u and reward pk
purchase_debits(u, pk) ==
    Cardinality({k \in DOMAIN txns[u] :
                    /\ txns[u][k].transaction_type = "reward_purchase"
                    /\ txns[u][k].description.title = Reward[pk].title})

\* C16: once every request has answered, each reward_purchase debit of a user has
\* exactly one RewardRedemption row of that user and reward, and each row one debit.
C16_DebitRolledBack ==
    (\A p \in Procs : req[p].pc = "idle") =>
        \A u \in Users, pk \in Rewards : purchase_debits(u, pk) = user_redemptions(Store, pk, u)

\* C17: once every request has answered, a reward of finite stock S redeemed by
\* different users has at most S redemptions, its stock_quantity is S less the
\* redemptions, its total_redeemed is the number of RewardRedemption rows created
\* for it, and nobody was debited for it without a row.
C17_StockNeverOversold ==
    (\A p \in Procs : req[p].pc = "idle") =>
        \A pk \in Rewards :
            LET rows == {k \in DOMAIN redemptions : redemptions[k].reward = pk}
                created == Cardinality(rows)
            IN  (/\ InitialRewards[pk].stock_quantity # Null
                 /\ \A k1, k2 \in rows : redemptions[k1].user = redemptions[k2].user => k1 = k2)
                => /\ created <= InitialRewards[pk].stock_quantity
                   /\ rewards[pk].stock_quantity = InitialRewards[pk].stock_quantity - created
                   /\ rewards[pk].total_redeemed = created
                   /\ \A u \in Users : purchase_debits(u, pk) = user_redemptions(Store, pk, u)

\* C28: the RewardRedemption rows of a user for a reward whose max_per_user is
\* set never outnumber max_per_user, redeem requests of the same user running
\* at once included.
C28_PerUserLimit ==
    \A u \in Users, pk \in Rewards :
        Reward[pk].max_per_user # Null
            => user_redemptions(Store, pk, u) <= Reward[pk].max_per_user

\* ------------------------------------------------------------------ user specification
\* Users register (or are made by createsuperuser), an admin activates and
\* deactivates them, and authenticated users ask for the user list.
UserInit ==
    /\ wallet = [u \in Users |-> NoWallet]
    /\ txns = NoTransactions
    /\ credited = 0
    /\ debited = 0
    /\ last = [op |-> "init", user |-> None, amount |-> 0, result |-> None]
    /\ req = [p \in Procs |-> Idle]
    /\ NoCourseActivity
    /\ NoAchievements
    /\ users = [u \in Users |-> NoUser]
    /\ NoRankings
    /\ NoRedemptions
    /\ served = 0

\* the latest created_at of the table (0: no row)
RECURSIVE latest_created_at(_, _)
latest_created_at(table, us) ==
    IF us = {} THEN 0
    ELSE LET u == CHOOSE x \in us : TRUE
             rest == latest_created_at(table, us \ {u})
         IN  IF table[u].created_at > rest THEN table[u].created_at ELSE rest

\* POST auth/register/ (UserRegistrationView) and createsuperuser; the clock has
\* not moved since the last registration, or it has
Register(u, role, is_superuser) ==
    /\ served < MaxRequests
    /\ users[u] = NoUser
    /\ \E now \in {latest_created_at(users, Users), latest_created_at(users, Users) + 1} :
          /\ now > 0
          /\ LET S == register(Store, u, role, is_superuser, now)
             IN  /\ Commit(S)
                 /\ last' = [op |-> "register", user |-> u, amount |-> 0, result |-> Result(S)]
    /\ served' = served + 1
    /\ UNCHANGED <<historyVars, req>>

\* GET users/ (UserViewSet.list): IsAuthenticated and CanManageUsers let every
\* active user read
ListUsers(requester) ==
    /\ served < MaxRequests
    /\ users[requester].role # None
    /\ users[requester].is_active
    /\ last' = [op |-> "list_users", user |-> requester, amount |-> 0,
                result |-> get_queryset(Store, requester)]
    /\ served' = served + 1
    /\ UNCHANGED <<ledgerVars, historyVars, req, courseVars, achievementVars, userVars,
                   leaderboardVars, redemptionVars>>

UserNext ==
    \/ \E u \in Users, role \in Roles, is_superuser \in BOOLEAN : Register(u, role, is_superuser)
    \/ \E u \in Users : Activate(u)
    \/ \E u \in Users : ListUsers(u)

UserSpec == UserInit /\ [][UserNext]_vars

\* C20: the list a requester gets is fixed by the requester's role: a student gets
\* exactly their own record, a teacher every student and their own record, an
\* admin every user.
C20_ListByRole ==
    [][\A requester \in Users :
          ListUsers(requester) =>
             /\ users[requester].role \in Roles
             /\ users[requester].role = "student" => last'.result = {requester}
             /\ users[requester].role = "teacher" =>
                   last'.result = {u \in Users : users[u].role = "student"} \cup {requester}
             /\ users[requester].role = "admin" =>
                   last'.result = {u \in Users : users[u] # NoUser}]_vars

\* a student asked for the list while another user was registered and got one record
C20_Witness ==
    /\ last.op = "list_users"
    /\ users[last.user].role = "student"
    /\ \E u \in Users \ {last.user} : users[u] # NoUser
    /\ last.result = {last.user}

\* ------------------------------------------------------------------ ledger fault specification
\* One request at a time calls add_tokens or spend_tokens; the statement that
\* follows self.save() may fail, or the process may stop before it runs. No
\* statement of the two methods runs inside a transaction, so the UPDATE of
\* self.save() is committed when it returns.
MaxFaultCalls == 3      \* add_tokens / spend_tokens calls started

\* wallet = user.fore_wallet, then the call is entered
FaultLoad(p, op, amount) ==
    /\ req[p].pc = "idle"
    /\ served < MaxFaultCalls
    /\ served' = served + 1
    /\ req' = [req EXCEPT ![p] = [Idle EXCEPT !.pc = "loaded", !.op = op, !.user = LedgerUser,
                                              !.amount = amount, !.w = wallet[LedgerUser],
                                              !.base = wallet[LedgerUser]]]
    /\ UNCHANGED <<wallet, txns, credited, debited, last, courseVars, achievementVars,
                   userVars, leaderboardVars, redemptionVars>>

\* Transaction.objects.create raises, or the worker stops before it runs: the
\* call ends without the INSERT and nothing undoes the UPDATE
InsertFails(p) ==
    /\ req[p].pc = "saved"
    /\ req' = [req EXCEPT ![p].pc = "done", ![p].result = DatabaseError]
    /\ UNCHANGED <<wallet, txns, credited, debited, last, courseVars, achievementVars,
                   userVars, leaderboardVars, redemptionVars, served>>

FaultNext ==
    \/ \E op \in {"add_tokens", "spend_tokens"}, amount \in 1 .. MaxAmount :
          FaultLoad("r1", op, amount)
    \/ RaceSave("r1")
    \/ RaceInsert("r1")
    \/ InsertFails("r1")
    \/ RaceReturn("r1")

FaultSpec == RaceInit /\ [][FaultNext]_vars

\* the sum of the amounts of the rows of a log
RECURSIVE SumAmounts(_)
SumAmounts(rows) ==
    IF rows = <<>> THEN 0 ELSE rows[1].amount + SumAmounts(Tail(rows))

\* C21: whenever no add_tokens / spend_tokens call is between its two statements,
\* failed and stopped calls included, the stored balance of the wallet is the sum
\* of the amounts of the user's stored transactions.
C21_BalanceMatchesLog ==
    (\A p \in Procs : req[p].pc \in {"idle", "done"}) =>
        wallet[LedgerUser].balance = SumAmounts(txns[LedgerUser])

\* ------------------------------------------------------------------ availability specification
\* One achievement of the catalog, as the admin site saves it: active or not,
\* max_recipients empty or any value a PositiveIntegerField takes (0 included).
\* Both students have a wallet; they complete lessons and ask for their
\* achievements to be checked.
MaxRecipients == 2      \* max_recipients is NULL or in 0 .. MaxRecipients

AvailabilityCatalogs ==
    { <<[Dedicado EXCEPT !.is_active = active, !.max_recipients = cap]>> :
          active \in BOOLEAN, cap \in {Null} \cup (0 .. MaxRecipients) }

AvailabilityInit ==
    /\ wallet = AllWallets
    /\ txns = NoTransactions
    /\ credited = 0
    /\ debited = 0
    /\ last = [op |-> "init", user |-> None, amount |-> 0, result |-> None]
    /\ req = [p \in Procs |-> Idle]
    /\ NoCourseActivity
    /\ catalog \in AvailabilityCatalogs
    /\ user_achievements = <<>>
    /\ users = InitialUsers
    /\ NoRankings
    /\ NoRedemptions
    /\ served = 0

AvailabilityNext ==
    \/ \E u \in Users, l \in Lessons : CompleteLesson(u, l)
    \/ \E u \in Users : CheckAll(u)

AvailabilitySpec == AvailabilityInit /\ [][AvailabilityNext]_vars

\* C24: is_available is True exactly when the achievement is active and
\* max_recipients is unset or above the number of grants, for every
\* max_recipients >= 0; no request grants an achievement that is inactive or
\* full when the request arrives.
C24_AvailabilityGate ==
    [][\A k \in DOMAIN catalog :
          LET a == catalog[k]
              n == Cardinality({i \in DOMAIN user_achievements :
                                   user_achievements[i].achievement = a.title})
              open == a.is_active /\ (a.max_recipients = Null \/ n < a.max_recipients)
          IN  /\ is_available(Store, a) <=> open
              /\ (\E i \in DOMAIN user_achievements' :
                     /\ i > Len(user_achievements)
                     /\ user_achievements'[i].achievement = a.title) => open]_vars

\* ------------------------------------------------------------------ claim race specification
\* UserRanking.claim_reward called by two requests at once, each on the
\* UserRanking object it loaded, one ORM statement per step. The rankings are
\* those of a completed update_rankings; nothing recomputes them meanwhile.
MaxClaimCalls == 3      \* claim_reward calls started

claimFrame == <<historyVars, courseVars, achievementVars, userVars, leaderboard,
                redemptionVars>>

\* the request loads the row of user u and calls claim_reward on the object
ClaimLoad(p, u) ==
    /\ req[p].pc = "idle"
    /\ served < MaxClaimCalls
    /\ served' = served + 1
    /\ \E i \in DOMAIN rankings :
          /\ rankings[i].user = u
          /\ req' = [req EXCEPT ![p] = [Idle EXCEPT !.pc = "claim", !.op = "claim_reward",
                                                    !.user = u,
                                                    !.rows = <<rankings[i]>>, !.i = i]]
    /\ UNCHANGED <<wallet, txns, rankings, last, claimFrame>>

\* the guard on the object's fields, then wallet = self.user.fore_wallet
ClaimGuard(p) ==
    /\ req[p].pc = "claim"
    /\ LET r == req[p]
           row == r.rows[1]
       IN  IF row.reward_claimed \/ row.reward_amount = 0
           THEN req' = [req EXCEPT ![p].pc = "done", ![p].result = FALSE]
           ELSE IF ~wallet[r.user].exists                      \* except Exception
           THEN req' = [req EXCEPT ![p].pc = "done", ![p].result = FALSE]
           ELSE req' = [req EXCEPT ![p].pc = "credit", ![p].w = wallet[r.user],
                                   ![p].amount = row.reward_amount]
    /\ UNCHANGED <<wallet, txns, rankings, last, served, claimFrame>>

\* add_tokens up to self.save()
ClaimCredit(p) ==
    /\ req[p].pc = "credit"
    /\ LET r == req[p]
           w == wallet_after_add(r.w, r.amount)
       IN  /\ wallet' = [wallet EXCEPT ![r.user] = w]
           /\ req' = [req EXCEPT ![p].pc = "log", ![p].w = w]
    /\ UNCHANGED <<txns, rankings, last, served, claimFrame>>

\* Transaction.objects.create(..., balance_after=self.balance)
ClaimLog(p) ==
    /\ req[p].pc = "log"
    /\ LET r == req[p]
       IN  txns' = [txns EXCEPT ![r.user] =
                       Append(@, Transaction(r.user, "admin_bonus", r.amount, r.w.balance,
                                             Description("Recompensa por posicion",
                                                         leaderboard.title)))]
    /\ req' = [req EXCEPT ![p].pc = "record"]
    /\ UNCHANGED <<wallet, rankings, last, served, claimFrame>>

\* self.reward_claimed = True; self.save(update_fields=['reward_claimed']); return True
ClaimRecord(p) ==
    /\ req[p].pc = "record"
    /\ rankings' = [rankings EXCEPT ![req[p].i].reward_claimed = TRUE]
    /\ req' = [req EXCEPT ![p].pc = "done", ![p].result = TRUE]
    /\ UNCHANGED <<wallet, txns, last, served, claimFrame>>

\* the caller has the answer; the request's objects are dropped
ClaimReturn(p) ==
    /\ req[p].pc = "done"
    /\ req' = [req EXCEPT ![p] = Idle]
    /\ UNCHANGED <<wallet, txns, rankings, last, served, claimFrame>>

ClaimNext ==
    \/ \E p \in Procs, u \in Users : ClaimLoad(p, u)
    \/ \E p \in Procs : ClaimGuard(p)
    \/ \E p \in Procs : ClaimCredit(p)
    \/ \E p \in Procs : ClaimLog(p)
    \/ \E p \in Procs : ClaimRecord(p)
    \/ \E p \in Procs : ClaimReturn(p)

ClaimSpec == RankingInit /\ [][ClaimNext]_vars

\* the admin_bonus credits logged for user u
claim_credits(u) ==
    {k \in DOMAIN txns[u] : txns[u][k].transaction_type = "admin_bonus"}

\* C27: two claim_reward calls on copies of the same unclaimed row never both
\* return True, and the user's wallet is credited the reward at most once.
C27_ConcurrentClaimOnce ==
    /\ \A u \in Users : Cardinality(claim_credits(u)) <= 1
    /\ \A p, q \in Procs :
          ( /\ p # q
            /\ req[p].pc = "done" /\ req[q].pc = "done"
            /\ req[p].i = req[q].i )
          => ~(req[p].result = TRUE /\ req[q].result = TRUE)

\* ------------------------------------------------------------------ recompute specification
\* update_rankings and claim_reward called one after another on the leaderboard,
\* over course activity and scoring data that do not change.
RecomputeNext ==
    \/ UpdateRankings
    \/ \E u \in Users : ClaimReward(u)

RecomputeSpec == RankingInit /\ [][RecomputeNext]_vars

\* C30: over any sequence of update_rankings and claim_reward calls with
\* unchanged activity, every user is credited the positional reward of the
\* leaderboard at most once.
C30_ClaimSurvivesRecompute ==
    \A u \in Users : Cardinality(claim_credits(u)) <= 1

====
